---- MODULE Spec2Model ----
(***************************************************************************)
(* A model of daily_tasker: the resilient HTTP client                      *)
(* (core/http_client.py, utils/session_helper.py), the config loader and   *)
(* adapters (config/loader.py, config/adapter.py, config/models.py) and    *)
(* the account task runner (core/base_site.py).                            *)
(*                                                                         *)
(* Each component has its own specification over the shared variables; the *)
(* variables of the other components stay parked at their initial values.  *)
(***************************************************************************)
EXTENDS Integers, Sequences, FiniteSets, TLC

(***************************************************************************)
(* Bounds of the model.                                                    *)
(***************************************************************************)
MaxRetry == 3
MaxInterval == 2
MaxTasks == 3
MaxRuns == 2
MaxKeys == 2
MaxFiles == 1
MaxLoads == 2

VARIABLES
    \* ---- HttpClient (core/http_client.py) ----
    retry_times,      \* self._config.retry_times
    retry_interval,   \* self._config.retry_interval
    method,           \* verb of the call in progress ("none" when idle)
    hpc,              \* "idle" | "in_call" | "returned" | "raised"
    attempt,          \* loop variable of _request_with_retry
    calls,            \* invocations of the session method (http_client.py:114)
    total,            \* urllib3 Retry.total left inside the current session call
    sends,            \* requests put on the wire during this call
    sleeps,           \* arguments of time.sleep during this call, in order
    seen,             \* set of wire outcomes observed during this call
    resp,             \* status code of the returned response (0: none)
    error,            \* the exception that left the call
    \* ---- resolve_file_path (config/loader.py) ----
    fs,               \* the file system: absolute path -> "absent" | "file" | "dir"
    user_path,        \* argument user_path of the call ("None" for None)
    local_filename,   \* argument local_filename
    fallback_path,    \* argument fallback_path
    rpc,              \* "idle" | "done"
    resolved,         \* the returned path ("None" for None)
    \* ---- AccountsAdapter (config/adapter.py) ----
    raw,              \* self._raw: the raw document, in insertion order
    cache,            \* contents of the dict self._cache: site -> key -> Account
    cache_id,         \* identity of the dict object bound to self._cache
    first,            \* the first normal return of parse(): its object and contents
    aret,             \* outcome of the latest AccountsAdapter call
    sites0,           \* the sites of the raw document at the first parse() call
    \* ---- BaseSite (core/base_site.py) ----
    spc,              \* where the runner is: "none" | "init" | "no_object" |
                      \*   "ready" | "running" | "completed" | "failed"
    stored,           \* the constructor arguments stored on self
    task_sequence,    \* self.task_sequence
    hook,             \* build_task_sequence: calls so far, what the call found
    built_seq,        \* the sequence as the hook left it
    idx,              \* position of the for loop of run_all_tasks (1-based)
    in_task,          \* TRUE while task() is executing
    log,              \* start/end events of the steps of the current run
    task_error,       \* the error the failing step raised ("none")
    run_error,        \* the error that left run_all_tasks ("none")
    runs,             \* calls of run_all_tasks so far
    \* ---- ConfigAdapter (config/adapter.py) ----
    raw_config,       \* self._raw: the parsed configuration document
    cfg,              \* the record returned by the latest get_*_config call
    warnings,         \* the logger.warning calls of that call, in order
    \* ---- load_site_config / load_site_accounts (config/loader.py) ----
    disk,             \* the files the loaders can see: path -> "absent" | content
    memo,             \* the store of cached_load_config: loader -> argument -> result
    lret,             \* outcome of the latest loader call
    loads,            \* loader calls so far
    \* ---- SiteConfig (config/models.py) ----
    sc,               \* the SiteConfig object: enabled, signin_url, _extra
    sc_kwargs,        \* the mapping it was built from
    look,             \* outcome of the latest attribute lookup on it
    \* ---- AccountsAdapter shared by concurrent workers (config/adapter.py) ----
    w_raw,            \* self._raw of the shared adapter
    w_cache,          \* contents of the shared dict self._cache
    wpc,              \* per worker: "idle" | "check" | "loop" | "return" |
                      \*   "lookup" | "done"
    wcall,            \* per worker: the operation called and its site argument
    wi,               \* per worker: position of the outer loop of parse() (1-based)
    wret,             \* per worker: the registry as handed back, the value returned
    builds,           \* how many times a call has started to build the registry
    \* ---- get_shared_browser_client (core/browser_client.py) ----
    shared,           \* the global _shared_browser_client (0: None, else an instance)
    instances,        \* the BrowserClient objects constructed so far: their configs
    bpc,              \* per worker: "idle" | "test" | "construct" | "assign" |
                      \*   "return" | "done"
    bcfg,             \* per worker: the config argument of its call
    bnew,             \* per worker: the instance it constructed and has yet to assign
    bret,             \* per worker: the instance its call returned (0: none)
    returned,         \* every instance some call has returned
    \* ---- ConfigAdapter.get_site_config (config/adapter.py) ----
    g_raw,            \* self._raw: the document, with or without a "sites" section
    g_ret             \* outcome of the latest get_site_config call

httpVars == <<retry_times, retry_interval, method, hpc, attempt, calls, total,
              sends, sleeps, seen, resp, error>>

resolveVars == <<fs, user_path, local_filename, fallback_path, rpc, resolved>>

accountsVars == <<raw, cache, cache_id, first, aret, sites0>>

siteVars == <<spc, stored, task_sequence, hook, built_seq, idx, in_task, log,
              task_error, run_error, runs>>

configVars == <<raw_config, cfg, warnings>>

loaderVars == <<disk, memo, lret, loads>>

siteConfVars == <<sc, sc_kwargs, look>>

workerVars == <<w_raw, w_cache, wpc, wcall, wi, wret, builds>>

browserVars == <<shared, instances, bpc, bcfg, bnew, bret, returned>>

getSiteVars == <<g_raw, g_ret>>

vars == <<httpVars, resolveVars, accountsVars, siteVars, configVars, loaderVars,
          siteConfVars,
          workerVars,
          browserVars,
          getSiteVars>>

\* A step of one component leaves the other components alone.
OnlyHttp ==
    UNCHANGED <<resolveVars, accountsVars, siteVars, configVars, loaderVars,
                siteConfVars,
                workerVars,
                browserVars,
                getSiteVars>>
OnlyResolve ==
    UNCHANGED <<httpVars, accountsVars, siteVars, configVars, loaderVars,
                siteConfVars,
                workerVars,
                browserVars,
                getSiteVars>>
OnlyAccounts ==
    UNCHANGED <<httpVars, resolveVars, siteVars, configVars, loaderVars,
                siteConfVars,
                workerVars,
                browserVars,
                getSiteVars>>
OnlySite ==
    UNCHANGED <<httpVars, resolveVars, accountsVars, configVars, loaderVars,
                siteConfVars,
                workerVars,
                browserVars,
                getSiteVars>>
OnlyConfig ==
    UNCHANGED <<httpVars, resolveVars, accountsVars, siteVars, loaderVars,
                siteConfVars,
                workerVars,
                browserVars,
                getSiteVars>>
OnlyLoader ==
    UNCHANGED <<httpVars, resolveVars, accountsVars, siteVars, configVars,
                siteConfVars,
                workerVars,
                browserVars,
                getSiteVars>>
OnlySiteConf ==
    UNCHANGED <<httpVars, resolveVars, accountsVars, siteVars,
                configVars, loaderVars,
                workerVars,
                browserVars,
                getSiteVars>>
OnlyWorkers ==
    UNCHANGED <<httpVars, resolveVars, accountsVars, siteVars,
                configVars, loaderVars, siteConfVars,
                browserVars,
                getSiteVars>>
OnlyBrowser ==
    UNCHANGED <<httpVars, resolveVars, accountsVars, siteVars, configVars,
                loaderVars, siteConfVars, workerVars,
                getSiteVars>>
OnlyGetSite ==
    UNCHANGED <<httpVars, resolveVars, accountsVars, siteVars, configVars,
                loaderVars, siteConfVars, workerVars, browserVars>>

(***************************************************************************)
(* HttpClient                                                              *)
(***************************************************************************)
Verbs == {"get", "post", "put", "patch", "delete"}

\* session_helper.py: Retry(status_forcelist=[429, 500, 502, 503, 504])
status_forcelist == {429, 500, 502, 503, 504}

\* A policy that let the transport retry every verb.
allowed_methods_EveryVerb == Verbs

\* session_helper.py: Retry(allowed_methods=["HEAD", "GET", "OPTIONS"]);
\* of the verbs HttpClient exposes only "get" is in the list.
allowed_methods == {"get"}

\* What one request on the wire can produce: a response with a status code,
\* a connection error (request never reached the server) or a read error.
StatusCodes == {200, 304, 404, 503}
Outcomes ==
    [kind : {"status"}, code : StatusCodes]
        \cup [kind : {"connect_error", "read_error"}, code : {0}]

NoError == [exc |-> "none", attempt |-> 0, code |-> 0]

RECURSIVE Pow2(_)
Pow2(k) == IF k <= 0 THEN 1 ELSE 2 * Pow2(k - 1)

\* A backoff that grew linearly instead of doubling.
Backoff_Linear(interval, k) == interval * (k + 1)

\* http_client.py:119  backoff = self.retry_interval * (2**attempt)
Backoff(interval, k) == interval * Pow2(k)

\* http_client.py:111  range(self.retry_times + 1)
AttemptRange(n) == 0 .. n

\* A loop that allowed one retry too many.
MayRetry_Inclusive(k, n) == k <= n

\* http_client.py:118  if attempt < self.retry_times
MayRetry(k, n) == k < n

\* urllib3 Retry as configured by init_session: does the transport re-send
\* after this outcome instead of handing it to the caller?
\*   - connection errors are retried for every method;
\*   - read errors and force-list statuses only for allowed_methods.
TransportRetryable(m, o) ==
    \/ o.kind = "connect_error"
    \/ o.kind = "read_error" /\ m \in allowed_methods
    \/ o.kind = "status" /\ o.code \in status_forcelist /\ m \in allowed_methods

\* The RequestException the session call raises for an outcome that ends it,
\* "none" when the response passes raise_for_status (http_client.py:115).
RaisedBy(m, o) ==
    IF TransportRetryable(m, o)
    THEN IF o.kind = "status" THEN "RetryError" ELSE "ConnectionError"
    ELSE IF o.kind = "read_error" THEN "ConnectionError"
    ELSE IF o.code >= 400 THEN "HTTPError"
    ELSE "none"

RequestExceptions == {"HTTPError", "ConnectionError", "RetryError"}

HttpInit ==
    /\ retry_times \in (0 - 1) .. MaxRetry
    /\ retry_interval \in 1 .. MaxInterval
    /\ method = "none"
    /\ hpc = "idle"
    /\ attempt = 0
    /\ calls = 0
    /\ total = 0
    /\ sends = 0
    /\ sleeps = <<>>
    /\ seen = {}
    /\ resp = 0
    /\ error = NoError

\* HttpClient.get/post/put/patch/delete entering _request_with_retry: the
\* for loop starts, or falls through to the RuntimeError when its range is
\* empty.
CallVerb(m) ==
    /\ hpc = "idle"
    /\ method' = m
    /\ attempt' = 0
    /\ sends' = 0
    /\ sleeps' = <<>>
    /\ seen' = {}
    /\ resp' = 0
    /\ IF AttemptRange(retry_times) = {}
       THEN \* http_client.py:124
            /\ hpc' = "raised"
            /\ error' = [exc |-> "RuntimeError", attempt |-> 0, code |-> 0]
            /\ total' = 0
            /\ calls' = 0
       ELSE /\ hpc' = "in_call"
            /\ error' = NoError
            /\ total' = retry_times
            /\ calls' = 1
    /\ UNCHANGED <<retry_times, retry_interval>>
    /\ OnlyHttp

\* One request on the wire with outcome o, and everything that follows it
\* up to the next request or the end of the call: the transport's own retry,
\* raise_for_status, the except clause with its sleep, return or raise.
Send(o) ==
    /\ hpc = "in_call"
    /\ sends' = sends + 1
    /\ seen' = seen \cup {o}
    /\ IF TransportRetryable(method, o) /\ total > 0
       THEN \* urllib3 re-sends within the same session call
            /\ total' = total - 1
            /\ UNCHANGED <<hpc, attempt, calls, sleeps, resp, error>>
       ELSE IF RaisedBy(method, o) = "none"
       THEN \* http_client.py:116  return resp
            /\ hpc' = "returned"
            /\ resp' = o.code
            /\ UNCHANGED <<attempt, calls, total, sleeps, error>>
       ELSE IF MayRetry(attempt, retry_times)
       THEN \* http_client.py:118-121  sleep and continue
            /\ sleeps' = Append(sleeps, Backoff(retry_interval, attempt))
            /\ attempt' = attempt + 1
            /\ calls' = calls + 1
            /\ total' = retry_times
            /\ UNCHANGED <<hpc, resp, error>>
       ELSE \* http_client.py:122  raise
            /\ hpc' = "raised"
            /\ error' = [exc |-> RaisedBy(method, o), attempt |-> attempt,
                         code |-> o.code]
            /\ UNCHANGED <<attempt, calls, total, sleeps, resp>>
    /\ UNCHANGED <<retry_times, retry_interval, method>>
    /\ OnlyHttp

\* The caller has the result; the client is ready for its next call.
CallDone ==
    /\ hpc \in {"returned", "raised"}
    /\ hpc' = "idle"
    /\ method' = "none"
    /\ attempt' = 0
    /\ calls' = 0
    /\ total' = 0
    /\ sends' = 0
    /\ sleeps' = <<>>
    /\ seen' = {}
    /\ resp' = 0
    /\ error' = NoError
    /\ UNCHANGED <<retry_times, retry_interval>>
    /\ OnlyHttp

HttpNext ==
    \/ \E m \in Verbs : CallVerb(m)
    \/ \E o \in Outcomes : Send(o)
    \/ CallDone

HttpParked ==
    /\ retry_times = 0
    /\ retry_interval = 1
    /\ method = "none"
    /\ hpc = "idle"
    /\ attempt = 0
    /\ calls = 0
    /\ total = 0
    /\ sends = 0
    /\ sleeps = <<>>
    /\ seen = {}
    /\ resp = 0
    /\ error = NoError

(***************************************************************************)
(* resolve_file_path                                                       *)
(***************************************************************************)
\* The absolute paths that may hold something.
Cwd == "/cwd"
ConfigDir == "/cfg"
\* constants.py:37-38
SITE_CONFIG_FILE == ConfigDir \o "/site_config.json"
SITE_ACCOUNTS_FILE == ConfigDir \o "/site_accounts.json"

AbsPaths ==
    {"/cwd/site_config.toml", "/cwd/site_config.json",
     SITE_CONFIG_FILE, SITE_ACCOUNTS_FILE, "/home/u/my.toml"}

\* What a caller may pass as user_path: None, the empty string, a path with
\* "~", a relative path, absolute paths, a symbolic link, a missing file.
UserPaths ==
    {"None", "", "~/my.toml", "site_config.toml", "/home/u/my.toml",
     "/cfg/site_config.json", "/home/u/link.toml", "missing.toml"}

\* loader.py:48  Path(user_path).expanduser().resolve()
ExpandResolve(u) ==
    CASE u = "" -> Cwd
      [] u = "~/my.toml" -> "/home/u/my.toml"
      [] u = "/home/u/link.toml" -> "/home/u/my.toml"
      [] u \in {"site_config.toml", "missing.toml"} -> Cwd \o "/" \o u
      [] OTHER -> u

\* Path.is_file(): an existing regular file; a directory is not one.
IsFile(files, p) ==
    IF p \in DOMAIN files THEN files[p] = "file" ELSE FALSE

\* loader.py:47  if user_path:   (None and "" are falsy)
Truthy(u) == u \notin {"None", ""}

\* A lookup that tried the fallback before the working directory.
resolve_file_path_FallbackFirst(files, u, l, f) ==
    IF Truthy(u) /\ IsFile(files, ExpandResolve(u)) THEN ExpandResolve(u)
    ELSE IF IsFile(files, f) THEN f
    ELSE IF IsFile(files, Cwd \o "/" \o l) THEN Cwd \o "/" \o l
    ELSE "None"

\* loader.py:29-63
resolve_file_path(files, u, l, f) ==
    IF Truthy(u) /\ IsFile(files, ExpandResolve(u)) THEN ExpandResolve(u)
    ELSE IF IsFile(files, Cwd \o "/" \o l) THEN Cwd \o "/" \o l
    ELSE IF IsFile(files, f) THEN f
    ELSE "None"

ResolveInit ==
    /\ fs \in [AbsPaths -> {"absent", "file", "dir"}]
    /\ user_path = "None"
    /\ local_filename = ""
    /\ fallback_path = ""
    /\ rpc = "idle"
    /\ resolved = "None"

ResolveParked ==
    /\ fs = [p \in AbsPaths |-> "absent"]
    /\ user_path = "None"
    /\ local_filename = ""
    /\ fallback_path = ""
    /\ rpc = "idle"
    /\ resolved = "None"

ResolveFilePath(u, l, f) ==
    /\ rpc = "idle"
    /\ user_path' = u
    /\ local_filename' = l
    /\ fallback_path' = f
    /\ resolved' = resolve_file_path(fs, u, l, f)
    /\ rpc' = "done"
    /\ UNCHANGED fs
    /\ OnlyResolve

ResolveReturn ==
    /\ rpc = "done"
    /\ rpc' = "idle"
    /\ user_path' = "None"
    /\ local_filename' = ""
    /\ fallback_path' = ""
    /\ resolved' = "None"
    /\ UNCHANGED fs
    /\ OnlyResolve

ResolveNext ==
    \/ \E u \in UserPaths,
          l \in {"site_config.toml", "site_config.json"},
          f \in {SITE_CONFIG_FILE, SITE_ACCOUNTS_FILE} :
            ResolveFilePath(u, l, f)
    \/ ResolveReturn

(***************************************************************************)
(* AccountsAdapter                                                         *)
(***************************************************************************)
Sites == {"s1", "s2"}
UserKeys == {"u1"}
QuerySites == Sites \cup {"s9"}
QueryUsers == UserKeys \cup {"u9"}

EmptyMap == [x \in {} |-> x]

\* str.strip() on the strings of the model (models.py:17-27).
Strip(str) ==
    CASE str = " bob " -> "bob"
      [] str = " pw " -> "pw"
      [] str = " x " -> "x"
      [] OTHER -> str

\* The per-account data blocks of the raw document.
AccountData ==
    {[username |-> "alice", password |-> " pw "],
     [username |-> " bob ", password |-> "pw"]}

\* models.py:95-104 with adapter.py:44-48: Account(...) strips its strings.
\* (The cookies derived from raw_cookies play no part in the registry's shape.)
Account(data) ==
    [username |-> Strip(data.username), password |-> Strip(data.password)]

\* A site block is a mapping, with or without an "accounts" key, or something
\* that is no mapping at all (a string).
SiteBlocks ==
    {[kind |-> "str", has_accounts |-> FALSE, accounts |-> EmptyMap]}
        \cup {[kind |-> "map", has_accounts |-> FALSE, accounts |-> EmptyMap]}
        \cup {[kind |-> "map", has_accounts |-> TRUE, accounts |-> a] :
                a \in UNION {[K -> AccountData] : K \in SUBSET UserKeys}}

RawItems == [site : Sites, block : SiteBlocks]

\* Raw documents: dicts, i.e. sequences of items with distinct keys.
RawDocs ==
    {<<>>} \cup {<<i>> : i \in RawItems}
        \cup {<<p[1], p[2]>> :
                p \in {q \in RawItems \X RawItems : q[1].site # q[2].site}}

RawSites(doc) == {doc[i].site : i \in 1 .. Len(doc)}

\* adapter.py:41-50, one iteration of the outer loop for a mapping block:
\* site_block.get("accounts", {}) and the inner loop.
ParsedBlock(block) ==
    [u \in DOMAIN block.accounts |-> Account(block.accounts[u])]

\* adapter.py:40-50: the outer loop from item i on, writing into the dict c.
\* A block that is no mapping raises AttributeError at site_block.get and
\* leaves what was written so far.
RECURSIVE ParseLoop(_, _, _)
ParseLoop(doc, i, c) ==
    IF i > Len(doc) THEN [cache |-> c, exc |-> "none"]
    ELSE IF doc[i].block.kind # "map"
    THEN [cache |-> c, exc |-> "AttributeError"]
    ELSE ParseLoop(doc, i + 1,
            [s \in DOMAIN c \cup {doc[i].site} |->
                IF s = doc[i].site THEN ParsedBlock(doc[i].block) ELSE c[s]])

\* adapter.py:37  if self._cache:   (an empty dict is falsy)
CacheHit(c) == c # EmptyMap

\* adapter.py:33-52
parse(doc, c) ==
    IF CacheHit(c) THEN [cache |-> c, exc |-> "none"] ELSE ParseLoop(doc, 1, c)

\* adapter.py:59  all_sites.get(site, {})
get_accounts_lookup(all_sites, site) ==
    IF site \in DOMAIN all_sites THEN all_sites[site] ELSE EmptyMap

NoRet ==
    [op |-> "none", site |-> "", user |-> "", exc |-> "none", id |-> 0,
     value |-> EmptyMap]
NoFirst == [id |-> 0, value |-> EmptyMap]
NoCall == {"no call yet"}

AccountsInit ==
    /\ raw \in RawDocs
    /\ cache = EmptyMap
    /\ cache_id = 1
    /\ first = NoFirst
    /\ aret = NoRet
    /\ sites0 = NoCall

AccountsParked ==
    /\ raw = <<>>
    /\ cache = EmptyMap
    /\ cache_id = 1
    /\ first = NoFirst
    /\ aret = NoRet
    /\ sites0 = NoCall

\* The bookkeeping of the first call of parse() and of its first normal
\* return.
NoteFirst(r) ==
    /\ first' = IF first = NoFirst /\ r.exc = "none"
                THEN [id |-> cache_id, value |-> r.cache]
                ELSE first
    /\ sites0' = IF sites0 = NoCall THEN RawSites(raw) ELSE sites0

\* AccountsAdapter.parse()
Parse ==
    LET r == parse(raw, cache) IN
    /\ cache' = r.cache
    /\ NoteFirst(r)
    /\ aret' = [op |-> "parse", site |-> "", user |-> "", exc |-> r.exc,
                id |-> IF r.exc = "none" THEN cache_id ELSE 0,
                value |-> IF r.exc = "none" THEN r.cache ELSE EmptyMap]
    /\ UNCHANGED <<raw, cache_id>>
    /\ OnlyAccounts

\* AccountsAdapter.get_accounts(site)
GetAccounts(site) ==
    LET r == parse(raw, cache) IN
    /\ cache' = r.cache
    /\ NoteFirst(r)
    /\ aret' = [op |-> "get_accounts", site |-> site, user |-> "",
                exc |-> r.exc, id |-> 0,
                value |-> IF r.exc = "none"
                          THEN get_accounts_lookup(r.cache, site)
                          ELSE EmptyMap]
    /\ UNCHANGED <<raw, cache_id>>
    /\ OnlyAccounts

\* AccountsAdapter.get_account(site, user)
GetAccount(site, user) ==
    LET r == parse(raw, cache)
        accts == get_accounts_lookup(r.cache, site)
    IN
    /\ cache' = r.cache
    /\ NoteFirst(r)
    /\ aret' = [op |-> "get_account", site |-> site, user |-> user,
                exc |-> IF r.exc # "none" THEN r.exc
                        ELSE IF user \in DOMAIN accts THEN "none"
                        ELSE "KeyError",
                id |-> 0,
                value |-> IF r.exc = "none" /\ user \in DOMAIN accts
                          THEN accts[user] ELSE EmptyMap]
    /\ UNCHANGED <<raw, cache_id>>
    /\ OnlyAccounts

\* The owner of the raw document changes it in place between calls:
\* raw[site] = block (a new key goes last) or del raw[site].
SetItem(doc, site, block) ==
    IF site \in RawSites(doc)
    THEN [i \in 1 .. Len(doc) |->
            IF doc[i].site = site THEN [site |-> site, block |-> block]
            ELSE doc[i]]
    ELSE Append(doc, [site |-> site, block |-> block])

DelItem(doc, site) == SelectSeq(doc, LAMBDA it : it.site # site)

MutateRawSet(site, block) ==
    /\ raw' = SetItem(raw, site, block)
    /\ raw' # raw
    /\ UNCHANGED <<cache, cache_id, first, aret, sites0>>
    /\ OnlyAccounts

MutateRawDel(site) ==
    /\ site \in RawSites(raw)
    /\ raw' = DelItem(raw, site)
    /\ UNCHANGED <<cache, cache_id, first, aret, sites0>>
    /\ OnlyAccounts

AccountsNext ==
    \/ Parse
    \/ \E s \in QuerySites : GetAccounts(s)
    \/ \E s \in QuerySites, u \in QueryUsers : GetAccount(s, u)
    \/ \E s \in Sites, b \in SiteBlocks : MutateRawSet(s, b)
    \/ \E s \in Sites : MutateRawDel(s)

(***************************************************************************)
(* BaseSite                                                                *)
(***************************************************************************)
\* The task steps a concrete site may put in its sequence, and the errors a
\* step may raise.
Steps == {"signin", "checkin", "report"}
TaskErrors == {"ValueError", "RequestException"}

RECURSIVE SeqsUpTo(_, _)
SeqsUpTo(S, n) ==
    IF n = 0 THEN {<<>>}
    ELSE LET shorter == SeqsUpTo(S, n - 1) IN
         shorter \cup {Append(q, x) : q \in {r \in shorter : Len(r) = n - 1}, x \in S}

TaskSequences == SeqsUpTo(Steps, MaxTasks)

Unset ==
    [request_conf |-> "unset", account_conf |-> "unset", site_conf |-> "unset",
     use_browser |-> FALSE]

NoHook == [calls |-> 0, raised |-> FALSE, saw_stored |-> FALSE, saw_seq |-> <<>>]

\* base_site.py:42  self.task_sequence: list[Callable[[], None]] = []
InitialTaskSequence == <<>>

\* A constructor that swallowed the hook's exception would hand out a runner.
AfterHookRaise_Swallowed == "ready"

\* base_site.py:43: an exception of the hook leaves __init__, so the caller
\* gets no object.
AfterHookRaise == "no_object"

\* A loop that skipped every other step.
NextTask_Skipping(i) == i + 2

\* base_site.py:57-58: the for loop takes the steps in list order.
NextTask(i) == i + 1

\* A loop that logged the error of a step and went on with the next one.
AfterTaskRaise_SkipOnFailure(i, e) ==
    [spc |-> "running", idx |-> i + 1, run_error |-> "none"]

\* base_site.py:58: task() is not wrapped in try/except, so an error of a
\* step leaves the loop and run_all_tasks as it is.
AfterTaskRaise(i, e) == [spc |-> "failed", idx |-> i, run_error |-> e]

SiteInit ==
    /\ spc = "none"
    /\ stored = Unset
    /\ task_sequence = <<>>
    /\ hook = NoHook
    /\ built_seq = <<>>
    /\ idx = 0
    /\ in_task = FALSE
    /\ log = <<>>
    /\ task_error = "none"
    /\ run_error = "none"
    /\ runs = 0

SiteParked == SiteInit

\* BaseSite.__init__, lines 36-42: store the arguments, start with an empty
\* task sequence.
Construct(use_browser) ==
    /\ spc = "none"
    /\ spc' = "init"
    /\ stored' = [request_conf |-> "request_conf",
                  account_conf |-> "account_conf",
                  site_conf |-> "site_conf",
                  use_browser |-> use_browser]
    /\ task_sequence' = InitialTaskSequence
    /\ UNCHANGED <<hook, built_seq, idx, in_task, log, task_error, run_error, runs>>
    /\ OnlySite

\* BaseSite.__init__, line 43: the hook of the concrete site runs, appends
\* its steps and returns; the constructor returns the runner.
BuildTaskSequence(steps) ==
    /\ spc = "init"
    /\ hook' = [calls |-> hook.calls + 1, raised |-> FALSE,
                saw_stored |-> stored # Unset, saw_seq |-> task_sequence]
    /\ task_sequence' = task_sequence \o steps
    /\ built_seq' = task_sequence \o steps
    /\ spc' = "ready"
    /\ UNCHANGED <<stored, idx, in_task, log, task_error, run_error, runs>>
    /\ OnlySite

\* BaseSite.__init__, line 43: the hook raises.
BuildTaskSequenceRaises ==
    /\ spc = "init"
    /\ hook' = [calls |-> hook.calls + 1, raised |-> TRUE,
                saw_stored |-> stored # Unset, saw_seq |-> task_sequence]
    /\ spc' = AfterHookRaise
    /\ UNCHANGED <<stored, task_sequence, built_seq, idx, in_task, log,
                   task_error, run_error, runs>>
    /\ OnlySite

\* run_all_tasks is called on a runner the caller holds.
RunAllTasks ==
    /\ spc \in {"ready", "completed", "failed"}
    /\ runs < MaxRuns
    /\ runs' = runs + 1
    /\ spc' = "running"
    /\ idx' = 1
    /\ in_task' = FALSE
    /\ log' = <<>>
    /\ task_error' = "none"
    /\ run_error' = "none"
    /\ UNCHANGED <<stored, task_sequence, hook, built_seq>>
    /\ OnlySite

\* base_site.py:58  task()  is entered.
TaskStart ==
    /\ spc = "running" /\ ~in_task
    /\ idx \in 1 .. Len(task_sequence)
    /\ in_task' = TRUE
    /\ log' = Append(log, [ev |-> "start", pos |-> idx, step |-> task_sequence[idx]])
    /\ UNCHANGED <<spc, stored, task_sequence, hook, built_seq, idx, task_error,
                   run_error, runs>>
    /\ OnlySite

\* task() returns; the loop moves on.
TaskReturn ==
    /\ spc = "running" /\ in_task
    /\ in_task' = FALSE
    /\ log' = Append(log, [ev |-> "end", pos |-> idx, step |-> task_sequence[idx]])
    /\ idx' = NextTask(idx)
    /\ UNCHANGED <<spc, stored, task_sequence, hook, built_seq, task_error,
                   run_error, runs>>
    /\ OnlySite

\* task() raises e.
TaskRaise(e) ==
    /\ spc = "running" /\ in_task
    /\ in_task' = FALSE
    /\ task_error' = e
    /\ spc' = AfterTaskRaise(idx, e).spc
    /\ idx' = AfterTaskRaise(idx, e).idx
    /\ run_error' = AfterTaskRaise(idx, e).run_error
    /\ UNCHANGED <<stored, task_sequence, hook, built_seq, log, runs>>
    /\ OnlySite

\* base_site.py:59  return, once the loop is exhausted.
RunReturn ==
    /\ spc = "running" /\ ~in_task
    /\ idx \notin 1 .. Len(task_sequence)
    /\ spc' = "completed"
    /\ UNCHANGED <<stored, task_sequence, hook, built_seq, idx, in_task, log,
                   task_error, run_error, runs>>
    /\ OnlySite

SiteNext ==
    \/ \E b \in BOOLEAN : Construct(b)
    \/ \E steps \in TaskSequences : BuildTaskSequence(steps)
    \/ BuildTaskSequenceRaises
    \/ RunAllTasks
    \/ TaskStart
    \/ TaskReturn
    \/ \E e \in TaskErrors : TaskRaise(e)
    \/ RunReturn

(***************************************************************************)
(* ConfigAdapter and the dataclasses of config/models.py                   *)
(***************************************************************************)
\* A value of the parsed document: its Python type and its text.
PyStr(v) == [t |-> "str", v |-> v]
PyInt(v) == [t |-> "int", v |-> v]
PyFloat(v) == [t |-> "float", v |-> v]
PyBool(v) == [t |-> "bool", v |-> v]

\* models.py:30-42  RequesterConfig
RequesterConfigDefaults ==
    [user_agent |-> PyStr(""), request_interval |-> PyFloat("5.0"),
     retry_times |-> PyInt("3"), retry_interval |-> PyFloat("5.0"),
     timeout |-> PyFloat("30.0"), headless |-> PyBool("True"),
     user_data_folder |-> PyStr(""), profile_name |-> PyStr(""),
     auto_close |-> PyBool("True"), disable_images |-> PyBool("True"),
     mute_audio |-> PyBool("True")]

\* models.py:48-54  TaskerConfig
TaskerConfigDefaults ==
    [parallel |-> PyBool("False"), max_workers |-> PyInt("5"),
     save_results |-> PyBool("False"), results_path |-> PyStr("results/"),
     generate_report |-> PyBool("False")]

\* models.py:14  LogLevel = Literal["DEBUG", "INFO", "WARNING", "ERROR"]
LogLevel == {"DEBUG", "INFO", "WARNING", "ERROR"}

\* models.py:60-62  DebugConfig
DebugConfigDefaults == [log_level |-> PyStr("INFO")]

ConfigClasses == {"RequesterConfig", "TaskerConfig", "DebugConfig"}

Defaults(cls) ==
    CASE cls = "RequesterConfig" -> RequesterConfigDefaults
      [] cls = "TaskerConfig" -> TaskerConfigDefaults
      [] cls = "DebugConfig" -> DebugConfigDefaults

\* adapter.py:88, 93, 98: the sub-mapping of "global" each class is built from.
SectionOf(cls) ==
    CASE cls = "RequesterConfig" -> "requests"
      [] cls = "TaskerConfig" -> "runtime"
      [] cls = "DebugConfig" -> "debug"

\* models.py:44-45, 56-57: RequesterConfig and TaskerConfig define
\* __post_init__ = _auto_strip_strings; DebugConfig defines none.
HasPostInit(cls) == cls \in {"RequesterConfig", "TaskerConfig"}

\* adapter.py:78  valid_keys = {f.name for f in fields(cls)}
valid_keys(cls) == DOMAIN Defaults(cls)

\* adapter.py:79  filtered = {k: v for k, v in config.items() if k in valid_keys}
filtered(cls, config) ==
    [k \in DOMAIN config \cap valid_keys(cls) |-> config[k]]

\* A filter that reported nothing.
extra_keys_Silent(cls, config) == {}

\* adapter.py:80  extra_keys = set(config) - valid_keys
extra_keys(cls, config) == DOMAIN config \ valid_keys(cls)

\* adapter.py:81-84: one warning naming the class and the extra keys.
filter_warnings(cls, config) ==
    IF extra_keys(cls, config) # {}
    THEN <<[cls |-> cls, keys |-> extra_keys(cls, config)]>>
    ELSE <<>>

\* models.py:17-27  _auto_strip_strings
auto_strip_strings(rec) ==
    [f \in DOMAIN rec |->
        IF rec[f].t = "str" THEN PyStr(Strip(rec[f].v)) ELSE rec[f]]

\* cls(**kwargs): the dataclass __init__ with its defaults, then __post_init__.
Construct_dataclass(cls, kwargs) ==
    LET rec == [f \in DOMAIN Defaults(cls) |->
                    IF f \in DOMAIN kwargs THEN kwargs[f] ELSE Defaults(cls)[f]]
    IN IF HasPostInit(cls) THEN auto_strip_strings(rec) ELSE rec

\* adapter.py:88: self._raw.get("global", {}).get(section, {})
SubMapping(doc, section) ==
    LET global == IF "global" \in DOMAIN doc THEN doc["global"] ELSE EmptyMap
    IN IF section \in DOMAIN global THEN global[section] ELSE EmptyMap

\* The raw sub-mappings of the model: up to MaxKeys keys, known or unknown,
\* with values of several types, strings with and without surrounding blanks.
UnknownKeys == {"colour", "proxy"}
RawValues == {PyStr(" x "), PyStr("x"), PyInt("7")}

Mappings(keys) ==
    UNION {[K -> RawValues] : K \in {L \in SUBSET keys : Cardinality(L) <= MaxKeys}}

\* The documents of the model: no "global" table, an empty one, or one with
\* a single section.
RawConfigs ==
    {EmptyMap} \cup {[g \in {"global"} |-> EmptyMap]}
        \cup UNION {{[g \in {"global"} |-> [sec \in {SectionOf(c)} |-> m]] :
                        m \in Mappings(valid_keys(c) \cup UnknownKeys)} :
                    c \in ConfigClasses}

NoCfg == [cls |-> "none", record |-> EmptyMap]

ConfigInit ==
    /\ raw_config \in RawConfigs
    /\ cfg = NoCfg
    /\ warnings = <<>>

ConfigParked ==
    /\ raw_config = EmptyMap
    /\ cfg = NoCfg
    /\ warnings = <<>>

\* adapter.py:87-100: get_requester_config, get_tasker_config and
\* get_debug_config share one shape.
GetConfig(cls) ==
    LET config == SubMapping(raw_config, SectionOf(cls)) IN
    /\ warnings' = filter_warnings(cls, config)
    /\ cfg' = [cls |-> cls,
               record |-> Construct_dataclass(cls, filtered(cls, config))]
    /\ UNCHANGED raw_config
    /\ OnlyConfig

GetRequesterConfig == GetConfig("RequesterConfig")
GetTaskerConfig == GetConfig("TaskerConfig")
GetDebugConfig == GetConfig("DebugConfig")

ConfigNext ==
    \/ GetRequesterConfig
    \/ GetTaskerConfig
    \/ GetDebugConfig

(***************************************************************************)
(* load_site_config and load_site_accounts                                 *)
(***************************************************************************)
LoaderNames == {"load_site_config", "load_site_accounts"}

\* loader.py:125, 151  local_filename=...
LocalFilenameOf(ld) ==
    IF ld = "load_site_config" THEN "site_config.toml" ELSE "site_accounts.toml"

\* loader.py:126, 152  fallback_path=...
FallbackOf(ld) ==
    IF ld = "load_site_config" THEN SITE_CONFIG_FILE ELSE SITE_ACCOUNTS_FILE

\* The files of the model: the default-named files of the working directory
\* in both formats, the two fallbacks and two files a caller can name.
LoaderPaths ==
    {"/cwd/site_config.toml", "/cwd/site_config.json", SITE_CONFIG_FILE,
     "/cwd/site_accounts.toml", "/cwd/site_accounts.json", SITE_ACCOUNTS_FILE,
     "/home/u/MY.TOML", "/home/u/conf.yaml"}

\* What a caller passes as config_path / accounts_path.
LoaderArgs == {"None", "/home/u/MY.TOML", "/home/u/conf.yaml"}

\* What a file holds: a well-formed document of the file's format whose top
\* level is the mapping map1, the text of a JSON array (well-formed JSON, not
\* a mapping; not TOML), or text that is neither JSON nor TOML.
Contents == {"map1", "list", "garbage"}

\* loader.py:95  path.suffix
Suffix(p) ==
    CASE p \in {"/cwd/site_config.toml", "/cwd/site_accounts.toml"} -> ".toml"
      [] p \in {"/cwd/site_config.json", "/cwd/site_accounts.json",
                SITE_CONFIG_FILE, SITE_ACCOUNTS_FILE} -> ".json"
      [] p = "/home/u/MY.TOML" -> ".TOML"
      [] p = "/home/u/conf.yaml" -> ".yaml"
      [] OTHER -> ""

\* An extension compared as written.
Lower_AsWritten(s) == s

\* loader.py:95  str.lower()
Lower(s) ==
    CASE s = ".TOML" -> ".toml"
      [] s = ".JSON" -> ".json"
      [] OTHER -> s

\* loader.py:98 json.load(f), loader.py:102 tomllib.load(f): the parsed
\* value, or the parser's decode error (both are subclasses of ValueError).
\* tomllib.load returns a dict or raises.
ParseText(format, text) ==
    IF text = "map1" THEN [exc |-> "none", data |-> text]
    ELSE IF format = "json" /\ text = "list"
    THEN [exc |-> "none", data |-> "list"]
    ELSE [exc |-> IF format = "json" THEN "JSONDecodeError"
                  ELSE "TOMLDecodeError",
          data |-> "none"]

\* loader.py:66-82  _validate_dict
validate_dict(data) == IF data = "map1" THEN data ELSE "empty"

\* loader.py:85-105  _load_by_extension
load_by_extension(files, path) ==
    LET ext == Lower(Suffix(path)) IN
    IF ext \in {".json", ".toml"}
    THEN LET format == IF ext = ".json" THEN "json" ELSE "toml"
             parsed == ParseText(format, files[path])
         IN [exc |-> parsed.exc,
             value |-> IF parsed.exc = "none" THEN validate_dict(parsed.data)
                       ELSE "none",
             read |-> path]
    ELSE [exc |-> "ValueError", value |-> "none", read |-> "None"]

\* What Path.is_file() sees of the loaders' files.
FileKinds(files) ==
    [p \in DOMAIN files |-> IF files[p] = "absent" THEN "absent" ELSE "file"]

\* loader.py:123-131, 149-157: the body of the two loaders.
load_body(files, ld, arg) ==
    LET path == resolve_file_path(FileKinds(files), arg, LocalFilenameOf(ld),
                                  FallbackOf(ld))
    IN IF path = "None"
       THEN [exc |-> "FileNotFoundError", value |-> "none", read |-> "None"]
       ELSE load_by_extension(files, path)

\* A store that answered with any entry of the loader.
MemoLookup_AnyPath(store, ld, arg) ==
    IF DOMAIN store[ld] # {}
    THEN store[ld][CHOOSE a \in DOMAIN store[ld] : TRUE]
    ELSE "miss"

\* cached_load_config: the entry of this loader for this argument.
MemoLookup(store, ld, arg) ==
    IF arg \in DOMAIN store[ld] THEN store[ld][arg] ELSE "miss"

\* cached_load_config: the store after this loader returned value for arg.
MemoStore(store, ld, arg, value) ==
    [store EXCEPT ![ld] =
        [a \in DOMAIN @ \cup {arg} |-> IF a = arg THEN value ELSE @[a]]]

NoLoad ==
    [loader |-> "none", arg |-> "None", exc |-> "none", value |-> "none",
     read |-> "None"]

PresentFiles(files) == {p \in DOMAIN files : files[p] # "absent"}

LoaderInit ==
    /\ disk \in {d \in [LoaderPaths -> {"absent"} \cup Contents] :
                    Cardinality(PresentFiles(d)) <= MaxFiles}
    /\ memo = [ld \in LoaderNames |-> EmptyMap]
    /\ lret = NoLoad
    /\ loads = 0

LoaderParked ==
    /\ disk = [p \in LoaderPaths |-> "absent"]
    /\ memo = [ld \in LoaderNames |-> EmptyMap]
    /\ lret = NoLoad
    /\ loads = 0

\* One call of a decorated loader: answered from the store, or the body runs
\* and a normal return is stored.
Load(ld, arg) ==
    /\ loads < MaxLoads
    /\ loads' = loads + 1
    /\ IF MemoLookup(memo, ld, arg) # "miss"
       THEN /\ lret' = [loader |-> ld, arg |-> arg, exc |-> "none",
                        value |-> MemoLookup(memo, ld, arg), read |-> "None"]
            /\ UNCHANGED memo
       ELSE LET r == load_body(disk, ld, arg) IN
            /\ lret' = [loader |-> ld, arg |-> arg, exc |-> r.exc,
                        value |-> r.value, read |-> r.read]
            /\ memo' = IF r.exc = "none"
                       THEN MemoStore(memo, ld, arg, r.value)
                       ELSE memo
    /\ UNCHANGED disk
    /\ OnlyLoader

LoadSiteConfig(arg) == Load("load_site_config", arg)
LoadSiteAccounts(arg) == Load("load_site_accounts", arg)

\* The environment writes or replaces a file.
WriteFile(p, text) ==
    /\ disk[p] # text
    /\ Cardinality(PresentFiles(disk) \cup {p}) <= MaxFiles
    /\ disk' = [disk EXCEPT ![p] = text]
    /\ UNCHANGED <<memo, lret, loads>>
    /\ OnlyLoader

\* The environment removes a file.
RemoveFile(p) ==
    /\ disk[p] # "absent"
    /\ disk' = [disk EXCEPT ![p] = "absent"]
    /\ UNCHANGED <<memo, lret, loads>>
    /\ OnlyLoader

LoaderNext ==
    \/ \E arg \in LoaderArgs : LoadSiteConfig(arg)
    \/ \E arg \in LoaderArgs : LoadSiteAccounts(arg)
    \/ \E p \in LoaderPaths, text \in Contents : WriteFile(p, text)
    \/ \E p \in LoaderPaths : RemoveFile(p)

(***************************************************************************)
(* SiteConfig                                                              *)
(***************************************************************************)
PyNone == [t |-> "NoneType", v |-> "None"]

\* The keys a site block of the document may hold, and their values.
SuppliedKeys == {"enabled", "signin_url", "api_key", "to_dict"}
SiteValues == {PyBool("False"), PyStr("https://x"), PyStr("v")}
SiteMappings ==
    UNION {[K -> SiteValues] :
            K \in {L \in SUBSET SuppliedKeys : Cardinality(L) <= MaxKeys}}

\* The names a caller looks up.
LookupNames ==
    {"enabled", "signin_url", "api_key", "region", "to_dict", "_extra"}

\* models.py:66-74  SiteConfig.__init__(enabled=True, signin_url=None, **kwargs)
SiteConfig_init(mapping) ==
    [enabled |-> IF "enabled" \in DOMAIN mapping THEN mapping["enabled"]
                 ELSE PyBool("True"),
     signin_url |-> IF "signin_url" \in DOMAIN mapping
                    THEN mapping["signin_url"] ELSE PyNone,
     _extra |-> [k \in DOMAIN mapping \ {"enabled", "signin_url"} |->
                    mapping[k]]]

\* models.py:81  the attributes the class itself defines beside the three
\* the constructor sets.
ClassAttributes == {"to_dict"}

\* A lookup that answered None for a name it does not know.
SiteConfig_getattr_NoneForMissing(obj, name) ==
    IF name \in DOMAIN obj._extra
    THEN [exc |-> "none", value |-> obj._extra[name]]
    ELSE [exc |-> "none", value |-> PyNone]

\* models.py:76-79  SiteConfig.__getattr__, called when normal lookup fails
SiteConfig_getattr(obj, name) ==
    IF name \in DOMAIN obj._extra
    THEN [exc |-> "none", value |-> obj._extra[name]]
    ELSE [exc |-> "AttributeError", value |-> PyNone]

\* obj.name: the instance attributes set by __init__ (models.py:72-74) and
\* the attributes of the class are found by normal lookup; __getattr__ is
\* the fallback.
GetAttribute(obj, name) ==
    IF name = "enabled" THEN [exc |-> "none", value |-> obj.enabled]
    ELSE IF name = "signin_url" THEN [exc |-> "none", value |-> obj.signin_url]
    ELSE IF name = "_extra"
    THEN [exc |-> "none", value |-> [t |-> "dict", v |-> "_extra"]]
    ELSE IF name \in ClassAttributes
    THEN [exc |-> "none", value |-> [t |-> "method", v |-> name]]
    ELSE SiteConfig_getattr(obj, name)

NoSiteConfig == [enabled |-> PyNone, signin_url |-> PyNone, _extra |-> EmptyMap]
NoLookup == [name |-> "none", exc |-> "none", value |-> PyNone]

SiteConfInit ==
    /\ sc = NoSiteConfig
    /\ sc_kwargs = EmptyMap
    /\ look = NoLookup

\* adapter.py:109  SiteConfig(**site_config)
NewSiteConfig(mapping) ==
    /\ sc' = SiteConfig_init(mapping)
    /\ sc_kwargs' = mapping
    /\ look' = NoLookup
    /\ OnlySiteConf

\* getattr(site_config, name)
LookUp(name) ==
    /\ sc # NoSiteConfig
    /\ look' = [name |-> name, exc |-> GetAttribute(sc, name).exc,
                value |-> GetAttribute(sc, name).value]
    /\ UNCHANGED <<sc, sc_kwargs>>
    /\ OnlySiteConf

SiteConfNext ==
    \/ \E mapping \in SiteMappings : NewSiteConfig(mapping)
    \/ \E name \in LookupNames : LookUp(name)

(***************************************************************************)
(* One AccountsAdapter shared by concurrent workers                        *)
(***************************************************************************)
\* The workers are threads of one process: a thread switch can fall between
\* any two statements of parse() and get_accounts(); a single dict read or
\* dict store is atomic.
Workers == {"w1", "w2"}

\* The raw documents of the shared adapter: at least one site, every site
\* block a mapping, so that a single caller builds a complete, non-empty
\* registry.
SharedDocs ==
    {d \in RawDocs :
        /\ Len(d) >= 1
        /\ \A i \in 1 .. Len(d) : d[i].block.kind = "map"}

NoWorkerCall == [op |-> "none", site |-> ""]
NoWorkerRet == [registry |-> EmptyMap, value |-> EmptyMap]

WorkersInit ==
    /\ w_raw \in SharedDocs
    /\ w_cache = EmptyMap
    /\ wpc = [w \in Workers |-> "idle"]
    /\ wcall = [w \in Workers |-> NoWorkerCall]
    /\ wi = [w \in Workers |-> 0]
    /\ wret = [w \in Workers |-> NoWorkerRet]
    /\ builds = 0

WorkersParked ==
    /\ w_raw = <<>>
    /\ w_cache = EmptyMap
    /\ wpc = [w \in Workers |-> "idle"]
    /\ wcall = [w \in Workers |-> NoWorkerCall]
    /\ wi = [w \in Workers |-> 0]
    /\ wret = [w \in Workers |-> NoWorkerRet]
    /\ builds = 0

\* A worker calls parse() (adapter.py:33) or get_accounts(site) (adapter.py:54,
\* which calls parse() at once, adapter.py:58).
WorkerCall(w, op, site) ==
    /\ wpc[w] = "idle"
    /\ wpc' = [wpc EXCEPT ![w] = "check"]
    /\ wcall' = [wcall EXCEPT ![w] = [op |-> op, site |-> site]]
    /\ wret' = [wret EXCEPT ![w] = NoWorkerRet]
    /\ UNCHANGED <<w_raw, w_cache, wi, builds>>
    /\ OnlyWorkers

\* adapter.py:37  if self._cache:
WorkerCheck(w) ==
    /\ wpc[w] = "check"
    /\ IF CacheHit(w_cache)
       THEN /\ wpc' = [wpc EXCEPT ![w] = "return"]
            /\ UNCHANGED <<wi, builds>>
       ELSE /\ wpc' = [wpc EXCEPT ![w] = "loop"]
            /\ wi' = [wi EXCEPT ![w] = 1]
            /\ builds' = builds + 1
    /\ UNCHANGED <<w_raw, w_cache, wcall, wret>>
    /\ OnlyWorkers

\* adapter.py:40-50: one iteration of the outer loop, ending with the store
\* self._cache[site_name] = parsed.
WorkerIterate(w) ==
    /\ wpc[w] = "loop"
    /\ wi[w] <= Len(w_raw)
    /\ w_cache' = [s \in DOMAIN w_cache \cup {w_raw[wi[w]].site} |->
                     IF s = w_raw[wi[w]].site
                     THEN ParsedBlock(w_raw[wi[w]].block)
                     ELSE w_cache[s]]
    /\ wi' = [wi EXCEPT ![w] = @ + 1]
    /\ UNCHANGED <<w_raw, wpc, wcall, wret, builds>>
    /\ OnlyWorkers

\* adapter.py:40: the loop is exhausted.
WorkerLoopEnd(w) ==
    /\ wpc[w] = "loop"
    /\ wi[w] > Len(w_raw)
    /\ wpc' = [wpc EXCEPT ![w] = "return"]
    /\ UNCHANGED <<w_raw, w_cache, wcall, wi, wret, builds>>
    /\ OnlyWorkers

\* adapter.py:38, 52  return self._cache: the caller is handed the dict as
\* it is now.
WorkerReturn(w) ==
    /\ wpc[w] = "return"
    /\ wret' = [wret EXCEPT ![w].registry = w_cache]
    /\ wpc' = [wpc EXCEPT ![w] =
                 IF wcall[w].op = "get_accounts" THEN "lookup" ELSE "done"]
    /\ UNCHANGED <<w_raw, w_cache, wcall, wi, builds>>
    /\ OnlyWorkers

\* adapter.py:59  return all_sites.get(site, {})
WorkerLookup(w) ==
    /\ wpc[w] = "lookup"
    /\ wret' = [wret EXCEPT ![w].value =
                  get_accounts_lookup(w_cache, wcall[w].site)]
    /\ wpc' = [wpc EXCEPT ![w] = "done"]
    /\ UNCHANGED <<w_raw, w_cache, wcall, wi, builds>>
    /\ OnlyWorkers

\* The worker has its result and is free for the next call.
WorkerDone(w) ==
    /\ wpc[w] = "done"
    /\ wpc' = [wpc EXCEPT ![w] = "idle"]
    /\ UNCHANGED <<w_raw, w_cache, wcall, wi, wret, builds>>
    /\ OnlyWorkers

WorkersNext ==
    \E w \in Workers :
        \/ WorkerCall(w, "parse", "")
        \/ \E site \in QuerySites : WorkerCall(w, "get_accounts", site)
        \/ WorkerCheck(w)
        \/ WorkerIterate(w)
        \/ WorkerLoopEnd(w)
        \/ WorkerReturn(w)
        \/ WorkerLookup(w)
        \/ WorkerDone(w)

(***************************************************************************)
(* get_shared_browser_client                                               *)
(***************************************************************************)
\* The RequesterConfig objects callers pass.
BrowserConfigs == {"configA", "configB"}

BrowserInit ==
    /\ shared = 0
    /\ instances = <<>>
    /\ bpc = [w \in Workers |-> "idle"]
    /\ bcfg = [w \in Workers |-> "none"]
    /\ bnew = [w \in Workers |-> 0]
    /\ bret = [w \in Workers |-> 0]
    /\ returned = {}

\* browser_client.py:96  a worker calls get_shared_browser_client(config)
SharedCall(w, config) ==
    /\ bpc[w] = "idle"
    /\ bpc' = [bpc EXCEPT ![w] = "test"]
    /\ bcfg' = [bcfg EXCEPT ![w] = config]
    /\ bret' = [bret EXCEPT ![w] = 0]
    /\ UNCHANGED <<shared, instances, bnew, returned>>
    /\ OnlyBrowser

\* browser_client.py:98  if _shared_browser_client is None
SharedTest(w) ==
    /\ bpc[w] = "test"
    /\ bpc' = [bpc EXCEPT ![w] = IF shared = 0 THEN "construct" ELSE "return"]
    /\ UNCHANGED <<shared, instances, bcfg, bnew, bret, returned>>
    /\ OnlyBrowser

\* browser_client.py:99, 26-33  BrowserClient(config): a new object that
\* starts a browser with this config
SharedConstruct(w) ==
    /\ bpc[w] = "construct"
    /\ instances' = Append(instances, bcfg[w])
    /\ bnew' = [bnew EXCEPT ![w] = Len(instances) + 1]
    /\ bpc' = [bpc EXCEPT ![w] = "assign"]
    /\ UNCHANGED <<shared, bcfg, bret, returned>>
    /\ OnlyBrowser

\* browser_client.py:99  _shared_browser_client = <the new object>
SharedAssign(w) ==
    /\ bpc[w] = "assign"
    /\ shared' = bnew[w]
    /\ bnew' = [bnew EXCEPT ![w] = 0]
    /\ bpc' = [bpc EXCEPT ![w] = "return"]
    /\ UNCHANGED <<instances, bcfg, bret, returned>>
    /\ OnlyBrowser

\* browser_client.py:100  return _shared_browser_client
SharedReturn(w) ==
    /\ bpc[w] = "return"
    /\ bret' = [bret EXCEPT ![w] = shared]
    /\ returned' = returned \cup {shared}
    /\ bpc' = [bpc EXCEPT ![w] = "done"]
    /\ UNCHANGED <<shared, instances, bcfg, bnew>>
    /\ OnlyBrowser

\* The worker has its client and is free for the next call.
SharedDone(w) ==
    /\ bpc[w] = "done"
    /\ bpc' = [bpc EXCEPT ![w] = "idle"]
    /\ UNCHANGED <<shared, instances, bcfg, bnew, bret, returned>>
    /\ OnlyBrowser

BrowserNext ==
    \E w \in Workers :
        \/ \E config \in BrowserConfigs : SharedCall(w, config)
        \/ SharedTest(w)
        \/ SharedConstruct(w)
        \/ SharedAssign(w)
        \/ SharedReturn(w)
        \/ SharedDone(w)

(***************************************************************************)
(* ConfigAdapter.get_site_config                                           *)
(***************************************************************************)
\* A value of the document that is a mapping, or one that is not (a string).
AMapping(m) == [kind |-> "map", map |-> m]
NotAMapping == [kind |-> "str", map |-> EmptyMap]

\* The site blocks of the model: not a mapping, or a mapping of up to MaxKeys
\* keys, "self" among the key names a document may use.
SiteBlockKeys == SuppliedKeys \cup {"self"}
SiteBlockMappings ==
    UNION {[K -> SiteValues] :
            K \in {L \in SUBSET SiteBlockKeys : Cardinality(L) <= MaxKeys}}
SiteBlockValues == {NotAMapping} \cup {AMapping(m) : m \in SiteBlockMappings}

ConfSites == {"s1"}
ConfQuerySites == ConfSites \cup {"s9"}

\* The "sites" section: not a mapping, empty, or holding the block of s1.
SitesSections ==
    {NotAMapping, AMapping(EmptyMap)}
        \cup {AMapping([site \in ConfSites |-> b]) : b \in SiteBlockValues}

\* The documents: without a "sites" section, or with one.
SiteDocs ==
    {[has_sites |-> FALSE, sites |-> AMapping(EmptyMap)]}
        \cup {[has_sites |-> TRUE, sites |-> sec] : sec \in SitesSections}

\* adapter.py:103  self._raw.get("sites", {}).get(site, {}); .get on a
\* "sites" value that is no mapping raises AttributeError.
get_site_block(doc, site) ==
    IF ~doc.has_sites THEN [exc |-> "none", block |-> AMapping(EmptyMap)]
    ELSE IF doc.sites.kind # "map"
    THEN [exc |-> "AttributeError", block |-> NotAMapping]
    ELSE IF site \in DOMAIN doc.sites.map
    THEN [exc |-> "none", block |-> doc.sites.map[site]]
    ELSE [exc |-> "none", block |-> AMapping(EmptyMap)]

\* A check that let every block through.
IsDict_Unchecked(block) == TRUE

\* adapter.py:104  isinstance(site_config, dict)
IsDict(block) == block.kind = "map"

\* models.py:66-71: binding **site_config to __init__(self, enabled,
\* signin_url, **kwargs); a key named "self" collides with the first
\* parameter and the call raises TypeError.
BindsToInit(mapping) == "self" \notin DOMAIN mapping

\* adapter.py:102-109
get_site_config(doc, site) ==
    LET got == get_site_block(doc, site) IN
    IF got.exc # "none" THEN [exc |-> got.exc, config |-> NoSiteConfig]
    ELSE IF ~IsDict(got.block)
    THEN [exc |-> "TypeError", config |-> NoSiteConfig]
    ELSE IF ~BindsToInit(got.block.map)
    THEN [exc |-> "TypeError", config |-> NoSiteConfig]
    ELSE [exc |-> "none", config |-> SiteConfig_init(got.block.map)]

NoGetSite == [site |-> "", exc |-> "none", config |-> NoSiteConfig]

GetSiteInit ==
    /\ g_raw \in SiteDocs
    /\ g_ret = NoGetSite

GetSiteParked ==
    /\ g_raw = [has_sites |-> FALSE, sites |-> AMapping(EmptyMap)]
    /\ g_ret = NoGetSite

\* ConfigAdapter.get_site_config(site)
GetSiteConfig(site) ==
    /\ g_ret' = [site |-> site, exc |-> get_site_config(g_raw, site).exc,
                 config |-> get_site_config(g_raw, site).config]
    /\ UNCHANGED g_raw
    /\ OnlyGetSite

\* The caller has the result.
GetSiteReturn ==
    /\ g_ret # NoGetSite
    /\ g_ret' = NoGetSite
    /\ UNCHANGED g_raw
    /\ OnlyGetSite

GetSiteNext ==
    \/ \E site \in ConfQuerySites : GetSiteConfig(site)
    \/ GetSiteReturn

(***************************************************************************)
(* The specifications, one per component.                                  *)
(***************************************************************************)
InitHttp ==
    HttpInit /\ ResolveParked /\ AccountsParked /\ SiteParked /\ ConfigParked
        /\ LoaderParked
        /\ SiteConfInit
        /\ WorkersParked
        /\ BrowserInit
        /\ GetSiteParked
SpecHttp == InitHttp /\ [][HttpNext]_vars

InitResolve ==
    HttpParked /\ ResolveInit /\ AccountsParked /\ SiteParked /\ ConfigParked
        /\ LoaderParked
        /\ SiteConfInit
        /\ WorkersParked
        /\ BrowserInit
        /\ GetSiteParked
SpecResolve == InitResolve /\ [][ResolveNext]_vars

InitAccounts ==
    HttpParked /\ ResolveParked /\ AccountsInit /\ SiteParked /\ ConfigParked
        /\ LoaderParked
        /\ SiteConfInit
        /\ WorkersParked
        /\ BrowserInit
        /\ GetSiteParked
SpecAccounts == InitAccounts /\ [][AccountsNext]_vars

InitSite ==
    HttpParked /\ ResolveParked /\ AccountsParked /\ SiteInit /\ ConfigParked
        /\ LoaderParked
        /\ SiteConfInit
        /\ WorkersParked
        /\ BrowserInit
        /\ GetSiteParked
SpecSite == InitSite /\ [][SiteNext]_vars

InitConfig ==
    HttpParked /\ ResolveParked /\ AccountsParked /\ SiteParked /\ ConfigInit
        /\ LoaderParked
        /\ SiteConfInit
        /\ WorkersParked
        /\ BrowserInit
        /\ GetSiteParked
SpecConfig == InitConfig /\ [][ConfigNext]_vars

InitLoader ==
    HttpParked /\ ResolveParked /\ AccountsParked /\ SiteParked /\ ConfigParked
        /\ LoaderInit
        /\ SiteConfInit
        /\ WorkersParked
        /\ BrowserInit
        /\ GetSiteParked
SpecLoader == InitLoader /\ [][LoaderNext]_vars

InitSiteConf ==
    HttpParked /\ ResolveParked /\ AccountsParked /\ SiteParked /\ ConfigParked
        /\ LoaderParked
        /\ SiteConfInit
        /\ WorkersParked
        /\ BrowserInit
        /\ GetSiteParked
SpecSiteConf == InitSiteConf /\ [][SiteConfNext]_vars

InitWorkers ==
    HttpParked /\ ResolveParked /\ AccountsParked /\ SiteParked /\ ConfigParked
        /\ LoaderParked
        /\ SiteConfInit
        /\ WorkersInit
        /\ BrowserInit
        /\ GetSiteParked
SpecWorkers == InitWorkers /\ [][WorkersNext]_vars

InitBrowser ==
    HttpParked /\ ResolveParked /\ AccountsParked /\ SiteParked /\ ConfigParked
        /\ LoaderParked
        /\ SiteConfInit
        /\ WorkersParked
        /\ BrowserInit
        /\ GetSiteParked
SpecBrowser == InitBrowser /\ [][BrowserNext]_vars

InitGetSite ==
    HttpParked /\ ResolveParked /\ AccountsParked /\ SiteParked /\ ConfigParked
        /\ LoaderParked
        /\ SiteConfInit
        /\ WorkersParked
        /\ BrowserInit
        /\ GetSiteInit
SpecGetSite == InitGetSite /\ [][GetSiteNext]_vars

(***************************************************************************)
(* Claims about HttpClient                                                 *)
(***************************************************************************)
NonGetVerbs == {"post", "put", "patch", "delete"}

\* C1: a POST, PUT, PATCH or DELETE call on a client with retry_times = N >= 0
\* in which every attempt fails makes exactly N+1 attempts, sleeps
\* retry_interval * 2^k between attempt k and attempt k+1 (k = 0..N-1), does
\* not sleep after the last attempt, and raises the failure of the last
\* attempt.
C1_ExhaustedRetries ==
    (method \in NonGetVerbs /\ retry_times >= 0 /\ hpc = "raised") =>
        /\ calls = retry_times + 1
        /\ Len(sleeps) = retry_times
        /\ \A k \in 0 .. retry_times - 1 : sleeps[k + 1] = retry_interval * 2^k
        /\ error.exc \in RequestExceptions
        /\ error.attempt = retry_times

C1_Witness ==
    /\ method = "post" /\ hpc = "raised"
    /\ retry_times = 3 /\ retry_interval = 1
    /\ sleeps = <<1, 2, 4>>
    /\ calls = 4
    /\ error.exc = "HTTPError" /\ error.code = 404

\* C2: a GET is never retried by the explicit loop: a GET that only ever
\* receives a failure status outside the force-list is sent once, without any
\* sleep, and a GET that only ever receives force-list statuses is sent at
\* most retry_times + 1 times.
C2_GetNotInExplicitLoop ==
    (method = "get" /\ hpc = "raised" /\ retry_times >= 0) =>
        /\ calls = 1
        /\ sleeps = <<>>
        /\ (seen = {[kind |-> "status", code |-> 404]} => sends = 1)
        /\ (seen = {[kind |-> "status", code |-> 503]} =>
                sends <= retry_times + 1)

\* C3: every verb call ends either by returning a response whose status
\* passed validation or by raising the underlying transport/status error.
C3_ReturnOrUnderlyingError ==
    /\ hpc = "returned" => (resp >= 200 /\ resp < 400 /\ error = NoError)
    /\ hpc = "raised" => (error.exc \in RequestExceptions /\ sends >= 1)

(***************************************************************************)
(* Claims about resolve_file_path                                          *)
(***************************************************************************)
\* C4: resolve_file_path returns the user-supplied path if it is given and is
\* an existing regular file; otherwise the file local_filename in the current
\* working directory if that exists; otherwise fallback_path if that exists;
\* otherwise None.  A given but missing user path falls through.
RegularFile(p) == p \in AbsPaths /\ fs[p] = "file"
UserHit == user_path # "None" /\ RegularFile(ExpandResolve(user_path))
LocalHit == RegularFile("/cwd/" \o local_filename)
FallbackHit == RegularFile(fallback_path)

C4_PathPriority ==
    rpc = "done" =>
        /\ UserHit => resolved = ExpandResolve(user_path)
        /\ (~UserHit /\ LocalHit) => resolved = "/cwd/" \o local_filename
        /\ (~UserHit /\ ~LocalHit /\ FallbackHit) => resolved = fallback_path
        /\ (~UserHit /\ ~LocalHit /\ ~FallbackHit) => resolved = "None"

\* A given user path that is missing, with both lower tiers present: the
\* local file wins.
C4_Witness ==
    /\ rpc = "done"
    /\ user_path = "missing.toml"
    /\ local_filename = "site_config.toml"
    /\ fs["/cwd/site_config.toml"] = "file"
    /\ fs[fallback_path] = "file"
    /\ resolved = "/cwd/site_config.toml"

(***************************************************************************)
(* Claims about AccountsAdapter                                            *)
(***************************************************************************)
\* C5: calling parse() twice returns the identical registry object both
\* times, built from the raw document as it was at the first call, for every
\* raw document (also one that yields an empty registry) and even if the raw
\* document is mutated between the calls.
C5_ParseIdempotent ==
    (aret.op = "parse" /\ aret.exc = "none" /\ first # NoFirst) =>
        /\ aret.id = first.id
        /\ aret.value = first.value

\* The registry a caller is entitled to: the one the first normal parse()
\* returned; before that what the adapter holds, or, with nothing held yet,
\* the one parse() builds from the raw document.
C9_Registry ==
    IF first # NoFirst THEN first.value
    ELSE IF cache # EmptyMap THEN cache
    ELSE ParseLoop(raw, 1, EmptyMap).cache

C9_SiteAbsent(s) ==
    IF first # NoFirst THEN s \notin DOMAIN first.value
    ELSE IF cache # EmptyMap THEN s \notin DOMAIN cache
    ELSE s \notin RawSites(raw)

\* C9: get_accounts(site) for a site absent from the registry returns an
\* empty mapping, without raising and without adding the site to the
\* registry; get_account(site, user) raises KeyError whenever the site or the
\* user key under it is absent, and otherwise returns the registry's Account.
C9_Lookups ==
    [][/\ \A s \in QuerySites :
            (GetAccounts(s) /\ C9_SiteAbsent(s)) =>
                /\ aret'.exc = "none"
                /\ aret'.value = EmptyMap
                /\ s \notin DOMAIN cache'
       /\ \A s \in QuerySites, u \in QueryUsers :
            GetAccount(s, u) =>
                IF C9_SiteAbsent(s) THEN aret'.exc = "KeyError"
                ELSE IF s \notin DOMAIN C9_Registry THEN TRUE
                ELSE IF u \notin DOMAIN C9_Registry[s]
                THEN aret'.exc = "KeyError"
                ELSE aret'.exc = "none" /\ aret'.value = C9_Registry[s][u]
      ]_vars

\* C20: whenever parse() returns normally, the registry has exactly one
\* entry for every site the raw document had at the first parse() call (a
\* site without an "accounts" block has an empty mapping); so after a
\* parse() that raised part-way no later parse() or get_accounts() returns
\* normally from a registry that lacks some of these sites.
C20_CompleteRegistry ==
    /\ (aret.op = "parse" /\ aret.exc = "none") =>
            DOMAIN aret.value = sites0
    /\ (aret.op \in {"parse", "get_accounts"} /\ aret.exc = "none") =>
            DOMAIN cache = sites0

\* The entry a complete registry has for a site of the shared raw document.
C17_EntryOf(site) ==
    ParsedBlock((CHOOSE it \in {w_raw[i] : i \in 1 .. Len(w_raw)} :
                    it.site = site).block)

\* C17: when several workers call parse() / get_accounts() on one shared
\* adapter whose registry is not built yet, then under every interleaving
\* the registry is built once, every caller is handed the complete
\* registry, and get_accounts(site) for a site of the raw document returns
\* that site's entry, never the empty default of an absent site.
C17_BuiltOnceAndComplete ==
    /\ builds <= 1
    /\ \A w \in Workers :
        /\ wpc[w] \in {"lookup", "done"} =>
            DOMAIN wret[w].registry = RawSites(w_raw)
        /\ (/\ wpc[w] = "done"
            /\ wcall[w].op = "get_accounts"
            /\ wcall[w].site \in RawSites(w_raw)) =>
                wret[w].value = C17_EntryOf(wcall[w].site)

(***************************************************************************)
(* Claims about BaseSite                                                   *)
(***************************************************************************)
StartOf(j) == [ev |-> "start", pos |-> j, step |-> built_seq[j]]
EndOf(j) == [ev |-> "end", pos |-> j, step |-> built_seq[j]]

\* The events of steps 1..n, each started after the previous one ended.
RanInOrder(n) ==
    \A j \in 1 .. n : log[2 * j - 1] = StartOf(j) /\ log[2 * j] = EndOf(j)

\* C6: run_all_tasks is fail-fast: if step i raises, steps 1..i-1 have each
\* run exactly once before it, no step after i is executed, step i is not
\* retried, and the error of step i reaches the caller unchanged.
C6_FailFast ==
    task_error # "none" =>
        /\ spc = "failed"
        /\ run_error = task_error
        /\ idx \in 1 .. Len(built_seq)
        /\ Len(log) = 2 * idx - 1
        /\ RanInOrder(idx - 1)
        /\ log[2 * idx - 1] = StartOf(idx)

\* Three steps, the second raises: step 1 ran, step 2 was attempted, step 3
\* never ran.
C6_Witness ==
    /\ spc = "failed" /\ Len(task_sequence) = 3 /\ idx = 2
    /\ run_error = "ValueError"
    /\ Len(log) = 3

\* C7: when no step raises, one run_all_tasks call executes every step of the
\* task sequence exactly once, in declaration order, each step starting only
\* after the previous one has finished, and leaves the task sequence unchanged.
C7_AllInOrder ==
    /\ spc = "running" =>
            /\ task_sequence = built_seq
            /\ Len(log) = 2 * (idx - 1) + (IF in_task THEN 1 ELSE 0)
            /\ RanInOrder(idx - 1)
            /\ in_task => log[Len(log)] = StartOf(idx)
    /\ spc = "completed" =>
            /\ task_sequence = built_seq
            /\ Len(log) = 2 * Len(built_seq)
            /\ RanInOrder(Len(built_seq))
            /\ run_error = "none"

C7_Witness ==
    /\ spc = "completed"
    /\ task_sequence = <<"signin", "checkin", "report">>
    /\ Len(log) = 6

\* C8: construction stores the configs, starts with an empty sequence and
\* calls build_task_sequence exactly once, the hook completing before the
\* runner is usable: no step runs before the sequence is built, and if the
\* hook raises no runner is obtained.  The runner goes
\* constructed -> task-sequence-built -> running -> completed.
C8_States ==
    /\ spc \in {"none", "init"} => hook.calls = 0
    /\ spc \notin {"none", "init"} => hook.calls = 1
    /\ hook.calls = 1 => (hook.saw_stored /\ hook.saw_seq = <<>>)
    /\ (runs > 0 \/ log # <<>>) =>
            (~hook.raised /\ spc \in {"running", "completed", "failed"})
    /\ hook.raised => (spc = "no_object" /\ runs = 0 /\ log = <<>>)

C8_Order ==
    spc' # spc =>
        <<spc, spc'>> \in
            {<<"none", "init">>, <<"init", "ready">>, <<"init", "no_object">>,
             <<"ready", "running">>, <<"running", "completed">>,
             <<"running", "failed">>, <<"completed", "running">>,
             <<"failed", "running">>}

C8_Lifecycle == []C8_States /\ [][C8_Order]_vars

C8_Witness ==
    /\ spc = "no_object" /\ hook.raised /\ hook.calls = 1 /\ hook.saw_stored

(***************************************************************************)
(* Claims about ConfigAdapter                                              *)
(***************************************************************************)
C10_Supplied == SubMapping(raw_config, SectionOf(cfg.cls))
C10_Known == DOMAIN Defaults(cfg.cls)
C10_Unknown == DOMAIN C10_Supplied \ C10_Known

C10_Warnings ==
    IF C10_Unknown # {}
    THEN warnings = <<[cls |-> cfg.cls, keys |-> C10_Unknown]>>
    ELSE warnings = <<>>

\* C10 as stated: the record has, for every known field, the supplied value
\* if the raw mapping has the field and the default otherwise; unknown keys
\* have no effect; exactly one warning lists all unknown keys when there is
\* one, none otherwise.
C10_SuppliedOrDefault ==
    cfg.cls # "none" =>
        /\ DOMAIN cfg.record = C10_Known
        /\ \A f \in C10_Known :
                cfg.record[f] = IF f \in DOMAIN C10_Supplied
                                THEN C10_Supplied[f]
                                ELSE Defaults(cfg.cls)[f]
        /\ C10_Warnings

\* The value a supplied value ends up as: RequesterConfig and TaskerConfig
\* trim a string, DebugConfig keeps every value as it is.
C10_Trimmed(v) ==
    IF cfg.cls \in {"RequesterConfig", "TaskerConfig"} /\ v.t = "str"
    THEN [t |-> "str", v |-> IF v.v = " x " THEN "x" ELSE v.v]
    ELSE v

\* C10 (amended): as above, except that in a RequesterConfig or TaskerConfig
\* a supplied string value appears with its surrounding whitespace removed.
C10_SuppliedTrimmedOrDefault ==
    cfg.cls # "none" =>
        /\ DOMAIN cfg.record = C10_Known
        /\ \A f \in C10_Known :
                cfg.record[f] = IF f \in DOMAIN C10_Supplied
                                THEN C10_Trimmed(C10_Supplied[f])
                                ELSE Defaults(cfg.cls)[f]
        /\ C10_Warnings

\* A RequesterConfig from a mapping with a known and an unknown key.
C10_Witness ==
    /\ cfg.cls = "RequesterConfig"
    /\ DOMAIN C10_Supplied = {"user_agent", "proxy"}
    /\ C10_Supplied["user_agent"] = PyStr(" x ")
    /\ cfg.record["user_agent"] = PyStr("x")
    /\ cfg.record["retry_times"] = PyInt("3")
    /\ Len(warnings) = 1

(***************************************************************************)
(* Claims about the loaders                                                *)
(***************************************************************************)
\* A step that is a loader call, and one whose body ran (no stored entry).
LoadStep == loads' # loads
FreshLoadStep == LoadStep /\ lret'.arg \notin DOMAIN memo[lret'.loader]

\* The file the three tiers resolve to for the call this step makes.
FoundBy(ld, arg) ==
    resolve_file_path(FileKinds(disk), arg, LocalFilenameOf(ld), FallbackOf(ld))

JsonFiles ==
    {"/cwd/site_config.json", "/cwd/site_accounts.json", SITE_CONFIG_FILE,
     SITE_ACCOUNTS_FILE}
TomlFiles ==
    {"/cwd/site_config.toml", "/cwd/site_accounts.toml", "/home/u/MY.TOML"}

\* The text of the file is a document of the file's format.
WellFormed(p) ==
    \/ disk[p] = "map1"
    \/ disk[p] = "list" /\ p \in JsonFiles

\* The result the claim gives for a file that parses.
MappingOrEmpty(p) == IF disk[p] = "map1" THEN "map1" ELSE "empty"

C12_LocalTierEitherFormat ==
    [][FreshLoadStep =>
        LET ld == lret'.loader
            arg == lret'.arg
            localToml == Cwd \o "/" \o LocalFilenameOf(ld)
            localJson == IF ld = "load_site_config"
                         THEN "/cwd/site_config.json"
                         ELSE "/cwd/site_accounts.json"
        IN (/\ arg = "None" \/ disk[arg] = "absent"
            /\ disk[localToml] = "absent"
            /\ disk[localJson] # "absent")
           => lret'.read = localJson]_vars

\* C13: the loaders are memoized per input path, each on its own: once a
\* call with path p has returned, a later call of the same loader with p
\* returns the stored result without opening a file, whatever the files hold
\* by then; a call with another path, or of the other loader, runs the body
\* and leaves every other entry as it was; nothing else changes the store.
C13_MemoizedPerPath ==
    [][/\ ~LoadStep => memo' = memo
       /\ LoadStep =>
            LET ld == lret'.loader
                arg == lret'.arg
            IN /\ arg \in DOMAIN memo[ld] =>
                    /\ lret'.exc = "none"
                    /\ lret'.value = memo[ld][arg]
                    /\ lret'.read = "None"
                    /\ memo' = memo
               /\ arg \notin DOMAIN memo[ld] =>
                    /\ ~(lret'.exc = "none" /\ lret'.read = "None")
                    /\ lret'.exc = "none" =>
                         /\ arg \in DOMAIN memo'[ld]
                         /\ memo'[ld][arg] = lret'.value
                    /\ lret'.exc # "none" => memo' = memo
                    /\ \A l2 \in LoaderNames :
                         \A a2 \in DOMAIN memo[l2] :
                            /\ a2 \in DOMAIN memo'[l2]
                            /\ memo'[l2][a2] = memo[l2][a2]
                    /\ \A l2 \in LoaderNames :
                         DOMAIN memo'[l2] \subseteq
                            DOMAIN memo[l2] \cup (IF l2 = ld THEN {arg} ELSE {})
      ]_vars

\* The second call with the same path returned the mapping stored by the
\* first, although the file no longer parses.
C13_Witness ==
    /\ lret.loader = "load_site_accounts"
    /\ lret.arg = "/home/u/MY.TOML"
    /\ lret.exc = "none"
    /\ lret.read = "None"
    /\ lret.value = "map1"
    /\ disk["/home/u/MY.TOML"] = "garbage"

(***************************************************************************)
(* Claims about SiteConfig                                                 *)
(***************************************************************************)
C14_FixedFields ==
    /\ look.name = "enabled" =>
        /\ look.exc = "none"
        /\ look.value = IF "enabled" \in DOMAIN sc_kwargs
                        THEN sc_kwargs["enabled"] ELSE PyBool("True")
    /\ look.name = "signin_url" =>
        /\ look.exc = "none"
        /\ look.value = IF "signin_url" \in DOMAIN sc_kwargs
                        THEN sc_kwargs["signin_url"] ELSE PyNone

C14_OwnAttributes == {"_extra", "to_dict"}

C15_LogLevelEnumerated ==
    cfg.cls = "DebugConfig" =>
        cfg.record.log_level \in {PyStr(l) : l \in LogLevel}

\* C16: the retry count of the configuration behind an HttpClient is never
\* negative, so a verb call that has ended made at least one attempt and
\* ended with a response or with the error of a request; the RuntimeError
\* after the loop is never raised.
C16_RetryCountNonNegative ==
    hpc \in {"returned", "raised"} =>
        /\ retry_times >= 0
        /\ calls >= 1
        /\ hpc = "raised" => error.exc \in RequestExceptions

(***************************************************************************)
(* Claims about the two retry layers                                       *)
(***************************************************************************)
\* C18: for POST, PUT, PATCH and DELETE the transport never sends the
\* request again after a response with a failure status: as long as every
\* outcome on the wire was a response, the requests sent are the attempts
\* of the explicit loop, at most retry_times + 1, also when every response
\* is a 503.
C18_NoTransportResendOnStatus ==
    (method \in NonGetVerbs /\ \A o \in seen : o.kind = "status") =>
        /\ sends <= calls
        /\ calls <= retry_times + 1
        /\ hpc \in {"returned", "raised"} => sends = calls

\* A POST answered 503 every time was sent once per attempt of the loop.
C18_Witness ==
    /\ method = "post"
    /\ hpc = "raised"
    /\ retry_times = 2
    /\ seen = {[kind |-> "status", code |-> 503]}
    /\ sends = 3
    /\ calls = 3

C19_AtReturn ==
    hpc = "returned" =>
        /\ attempt <= retry_times
        /\ calls = attempt + 1
        /\ resp < 400
        /\ Len(sleeps) = attempt
        /\ \A j \in 0 .. attempt - 1 : sleeps[j + 1] = retry_interval * Pow2(j)

C19_NothingAfterSuccess ==
    hpc = "returned" =>
        /\ hpc' = "idle"
        /\ sends' <= sends
        /\ Len(sleeps') <= Len(sleeps)

\* C19: in the explicit loop the first successful attempt ends the call: when
\* zero-based attempt k <= retry_times is the first to succeed, the call
\* returns its response after exactly k+1 attempts and exactly k sleeps of
\* retry_interval * 2^j, j = 0..k-1, and nothing is sent and no sleep is
\* made after the success.
C19_FirstSuccessEndsCall == []C19_AtReturn /\ [][C19_NothingAfterSuccess]_vars

\* A PUT that failed twice and succeeded on attempt 2.
C19_Witness ==
    /\ method = "put"
    /\ hpc = "returned"
    /\ attempt = 2
    /\ retry_interval = 2
    /\ sleeps = <<2, 4>>
    /\ resp = 200

(***************************************************************************)
(* Claims about the shared browser client                                  *)
(***************************************************************************)
\* C21: across every sequence and interleaving of get_shared_browser_client
\* calls in one process, concurrent first calls included, at most one
\* BrowserClient is constructed and every call returns that one instance,
\* whatever config each call passes.
C21_SingleSharedInstance ==
    /\ Len(instances) <= 1
    /\ Cardinality(returned) <= 1
    /\ \A w \in Workers : bpc[w] = "done" => bret[w] = 1

(***************************************************************************)
(* Claims about get_site_config                                            *)
(***************************************************************************)
\* The block stored under sites.<site> of the document, when there is one.
C22_BlockPresent ==
    /\ g_raw.has_sites
    /\ g_raw.sites.kind = "map"
    /\ g_ret.site \in DOMAIN g_raw.sites.map

C22_Block == g_raw.sites.map[g_ret.site]

\* The site, or the whole "sites" section, is absent.
C22_Absent ==
    \/ ~g_raw.has_sites
    \/ g_raw.sites.kind = "map" /\ g_ret.site \notin DOMAIN g_raw.sites.map

C22_Defaults ==
    [enabled |-> PyBool("True"), signin_url |-> PyNone, _extra |-> EmptyMap]

C22_DefaultsWhenAbsent ==
    (g_ret.site # "" /\ C22_Absent) =>
        /\ g_ret.exc = "none"
        /\ g_ret.config = C22_Defaults

=============================================================================
